---- MODULE Spec2Model ----
(***************************************************************************)
(* A model of express-openapi-validator's OpenApiValidator                 *)
(* (src/src/openapi.validator.ts) and of its HttpError classes             *)
(* (framework/types).                                                      *)
(*                                                                         *)
(* JavaScript values are modelled as strings: "undef" and "null" are the   *)
(* two nullish values, "false"/"true" the booleans, "obj" an options       *)
(* object, "str" a non-empty string.                                       *)
(***************************************************************************)
EXTENDS Integers, Sequences, FiniteSets, TLC

(* ------------------------------ bounds -------------------------------- *)

\* Requests in flight against one installMiddleware call.
NumReqs == 2
\* Longest serDes list a user passes in the options.
MaxUserSerDes == 2
\* Longest errors list handed to an HttpError constructor.
MaxErrs == 2

(* --------------------------- JavaScript values ------------------------ *)

\* x == null (true of null and undefined)
IsNullish(v) == v \in {"undef", "null"}

\* ToBoolean for the values of the model
Truthy(v) == v \notin {"undef", "null", "false", "", "0"}

\* typeof v === 'string'
IsString(v) == v \in {"str", "", "fast", "full", "ignore"}

\* typeof v === 'object' (null included, as in JavaScript)
IsObject(v) == v \in {"obj", "objDefault", "null", "array"}

(* ------------------------------ SerDes -------------------------------- *)

\* framework/base.serdes: the built-in table, entries for date and date-time
BuiltinSerDes ==
  << [format |-> "date", origin |-> "builtin"],
     [format |-> "date-time", origin |-> "builtin"] >>

BuiltinFormats == { BuiltinSerDes[i].format : i \in 1..Len(BuiltinSerDes) }

UserFormats == {"date", "date-time", "uuid"}

UserSerDesEntry == [format : UserFormats, origin : {"user"}]

RECURSIVE SeqsUpTo(_, _)
SeqsUpTo(S, n) ==
  IF n = 0 THEN { <<>> }
  ELSE LET shorter == SeqsUpTo(S, n - 1)
       IN  shorter \cup { Append(s, x) : s \in shorter, x \in S }

\* Array.prototype.find: the first element satisfying the test, or undefined
FindIndex(arr, format) ==
  LET hits == { i \in 1..Len(arr) : arr[i].format = format }
  IN  IF hits = {} THEN 0 ELSE CHOOSE i \in hits : \A j \in hits : i <= j

(* ------------------------------ state --------------------------------- *)

VARIABLES
  optsObj,        \* the options object handed to the constructor (mutated in place)
  userSerDes,     \* the array the user passed as options.serDes
  defaultSerDes,  \* the shared built-in table imported from framework/base.serdes
  ctor,           \* "new" | "thrown" | "done": how far the constructor got
  ctorError,      \* message of the error the constructor threw, "none" otherwise
  thisOptions,    \* TRUE once this.options is assigned (it references optsObj)
  thisAjvOpts,    \* TRUE once this.ajvOpts is assigned
  inOpts,         \* history: the options and the serDes array as they were passed in
  mws,            \* the list installMiddleware returned (<<>> before the call)
  specP,          \* the spec promise handed to installMiddleware
  pContext,       \* the shared pContext promise and the record it resolves to
  loadFailure,    \* history: the error the load failed with, "none" otherwise
  counts,         \* history: how often each construction/installation ran
  inited,         \* the inited flag of pathParamsMiddleware
  cache,          \* metamw, scmw, fumw, reqmw, resmw, router: 0 = unset, else instance
  reqs,           \* per request: where it is in the chain and what it saw
  errOp,          \* the HttpError constructor or factory called last, "none" at first
  errIn,          \* the argument it was called with
  errOut,         \* the error object it returned
  ctxRoutes,      \* context.routes as handed to installPathParams
  app,            \* the app or router: the names app.param was called with, in order
  parCall         \* the last call of a param callback: name, request before and after

optVars == << optsObj, userSerDes, defaultSerDes, ctor, ctorError,
              thisOptions, thisAjvOpts, inOpts >>

mwVars == << mws, specP, pContext, loadFailure, counts, inited, cache, reqs >>

errVars == << errOp, errIn, errOut >>

parVars == << ctxRoutes, app, parCall >>

vars == << optsObj, userSerDes, defaultSerDes, ctor, ctorError, thisOptions,
           thisAjvOpts, inOpts, mws, specP, pContext, loadFailure, counts,
           inited, cache, reqs, errOp, errIn, errOut, ctxRoutes, app, parCall >>

(* ---------------------------- constructor ----------------------------- *)

\* the defaults with response validation on
ApplyDefaultsResponsesOn(o) ==
  [o EXCEPT
     !.validateApiSpec   = IF IsNullish(@) THEN "true" ELSE @,
     !.validateRequests  = IF IsNullish(@) THEN "true" ELSE @,
     !.validateResponses = IF IsNullish(@) THEN "true" ELSE @,
     !.validateSecurity  = IF IsNullish(@) THEN "true" ELSE @,
     !.fileUploader      = IF IsNullish(@) THEN "obj" ELSE @,
     !.validateFormats   = IF IsNullish(@) THEN "true" ELSE @,
     !.formats           = IF IsNullish(@) THEN "obj" ELSE @,
     !.useRequestUrl     = IF IsNullish(@) THEN "false" ELSE @]

\* lines 49-57: the defaults of the options left null/undefined
ApplyDefaults(o) ==
  [o EXCEPT
     !.validateApiSpec   = IF IsNullish(@) THEN "true" ELSE @,
     !.validateRequests  = IF IsNullish(@) THEN "true" ELSE @,
     !.validateResponses = IF IsNullish(@) THEN "false" ELSE @,
     !.validateSecurity  = IF IsNullish(@) THEN "true" ELSE @,
     !.fileUploader      = IF IsNullish(@) THEN "obj" ELSE @,
     !.validateFormats   = IF IsNullish(@) THEN "true" ELSE @,
     !.formats           = IF IsNullish(@) THEN "obj" ELSE @,
     !.useRequestUrl     = IF IsNullish(@) THEN "false" ELSE @]

\* lines 59-72: a string becomes {basePath, resolver: defaultResolver}
\* ("objDefault"); whatever is not of type 'object' becomes false.
NormalizeOperationHandlers(o) ==
  [o EXCEPT
     !.operationHandlers =
        IF IsString(@) THEN "objDefault"
        ELSE IF ~IsObject(@) THEN "false"
        ELSE @]

\* lines 74-91: true becomes the default options object
NormalizeValidateFlags(o) ==
  [o EXCEPT
     !.validateResponses = IF @ = "true" THEN "obj" ELSE @,
     !.validateRequests  = IF @ = "true" THEN "obj" ELSE @,
     !.validateSecurity  = IF @ = "true" THEN "obj" ELSE @]

\* validateOptions without the multerOpts check
validateOptionsNoMulterCheck(o) ==
  IF ~Truthy(o.apiSpec) THEN "apiSpec required."
  ELSE IF ~IsNullish(o.securityHandlers) THEN "securityHandlers is not supported."
  ELSE IF o.unknownFormats = "false" THEN "unknownFormats must contain an array"
  ELSE "none"

\* validateOptions (lines 331-380): the message of the error it throws,
\* "none" if it returns
validateOptions(o) ==
  IF ~Truthy(o.apiSpec) THEN "apiSpec required."
  ELSE IF ~IsNullish(o.securityHandlers) THEN "securityHandlers is not supported."
  ELSE IF ~IsNullish(o.multerOpts) THEN "multerOpts is not supported."
  ELSE IF o.unknownFormats = "false" THEN "unknownFormats must contain an array"
  ELSE "none"

\* the iteration without the look-up of an override
SerDesStepAlwaysPush(heap, i) ==
  IF heap.ref = "user"
  THEN [heap EXCEPT !.user = Append(@, heap.dflt[i])]
  ELSE [heap EXCEPT !.dflt = Append(@, heap.dflt[i])]

\* lines 406-419, one iteration of defaultSerDes.forEach: the entry at index i
\* of the built-in table is pushed onto the array options.serDes refers to
\* unless that array already has an entry of the same format.
\* heap = [ref, user, dflt]: ref names the array options.serDes refers to.
SerDesStep(heap, i) ==
  LET target == IF heap.ref = "user" THEN heap.user ELSE heap.dflt
      cur    == heap.dflt[i]
  IN  IF FindIndex(target, cur.format) # 0 THEN heap
      ELSE IF heap.ref = "user"
           THEN [heap EXCEPT !.user = Append(@, cur)]
           ELSE [heap EXCEPT !.dflt = Append(@, cur)]

RECURSIVE SerDesForEach(_, _, _)
SerDesForEach(heap, i, n) ==
  IF i > n THEN heap ELSE SerDesForEach(SerDesStep(heap, i), i + 1, n)

\* lines 406-419: forEach visits the elements present when it was called
NormalizeSerDes(heap) ==
  IF heap.ref \in {"undef", "null"}
  THEN [heap EXCEPT !.ref = "default"]
  ELSE SerDesForEach(heap, 1, Len(heap.dflt))

\* lines 385-404 and 421-436 of normalizeOptions (formats, validateFormats,
\* unknownFormats)
NormalizeFormats(o) ==
  LET o1 == [o EXCEPT !.formats = IF @ = "array" THEN "obj" ELSE @]
      o2 == IF IsString(o1.validateFormats)
            THEN [o1 EXCEPT !.ajvFormats = IF ~Truthy(@) THEN "obj" ELSE @,
                            !.validateFormats = "true"]
            ELSE IF Truthy(o1.validateFormats) /\ ~Truthy(o1.ajvFormats)
                 THEN [o1 EXCEPT !.ajvFormats = "obj"]
                 ELSE o1
  IN  IF o2.unknownFormats = "ignore"
      THEN [o2 EXCEPT !.validateFormats = "false"]
      ELSE o2

\* normalizeOptions (lines 382-439) on the options object and the two arrays
normalizeOptions(o, user, dflt) ==
  LET heap == NormalizeSerDes([ref |-> o.serDes, user |-> user, dflt |-> dflt])
  IN  [opts |-> [NormalizeFormats(o) EXCEPT !.serDes = heap.ref],
       user |-> heap.user,
       dflt |-> heap.dflt]

\* new OpenApiValidator(options), lines 48-97
Construct(o, user) ==
  /\ ctor = "new"
  /\ inOpts' = [opts |-> o, serDes |-> user]
  /\ UNCHANGED << mwVars, errVars, parVars >>
  /\ LET o1  == NormalizeValidateFlags(NormalizeOperationHandlers(ApplyDefaults(o)))
         msg == validateOptions(o1)
         n   == normalizeOptions(o1, user, defaultSerDes)
     IN  IF msg # "none"
         THEN /\ optsObj' = o1
              /\ userSerDes' = user
              /\ ctor' = "thrown"
              /\ ctorError' = msg
              /\ UNCHANGED << defaultSerDes, thisOptions, thisAjvOpts >>
         ELSE /\ optsObj' = n.opts
              /\ userSerDes' = n.user
              /\ defaultSerDes' = n.dflt
              /\ ctor' = "done"
              /\ thisOptions' = TRUE
              /\ thisAjvOpts' = TRUE
              /\ UNCHANGED ctorError


(* ------------------------- installMiddleware -------------------------- *)

Reqs == 1..NumReqs

\* values of the serial a loaded spec carries
Serials == {1, 2}

\* The Error objects a load fails with (a rejection of the spec promise, or a
\* throw of SchemaPreprocessor / OpenApiContext).
LoadErrors == {"E1", "E2"}

\* The part of a loaded spec the middlewares look at:
\* apiDoc.components?.securitySchemes and the serial of the load.
SpecDocs == [secSchemes : BOOLEAN, serial : Serials]

\* context: null (id 0), or the OpenApiContext object built as the id-th one
NullContext == [id |-> 0, serial |-> 0, secSchemes |-> FALSE]

\* MiddlewareContext (lines 38-42) inside the promise that carries it;
\* responseApiDoc: null (0), or sp.apiDocRes of the n-th preProcess run
PendingContext ==
  [state |-> "pending", context |-> NullContext,
   responseApiDoc |-> 0, error |-> "null"]

Components == {"metamw", "scmw", "fumw", "reqmw", "resmw"}

CountKeys ==
  Components \cup
  {"preProcess", "context", "appParams", "routerParams", "opInstall", "settle"}

NewReq ==
  [stage |-> 0, pc |-> "idle", outcome |-> "none", err |-> "null",
   seen |-> {}, used |-> {}, router |-> 0, arrivedPending |-> FALSE,
   twice |-> FALSE]

\* the list with the security middleware pushed after request validation
MiddlewareListSecurityLate(o) ==
  << "pathParams", "metadata" >>
  \o (IF Truthy(o.fileUploader) THEN << "multipart" >> ELSE << >>)
  \o (IF Truthy(o.validateRequests) THEN << "request" >> ELSE << >>)
  \o << "security" >>
  \o (IF Truthy(o.validateResponses) THEN << "response" >> ELSE << >>)
  \o (IF Truthy(o.operationHandlers) THEN << "operationHandlers" >> ELSE << >>)

\* lines 130-230: the middlewares pushed, in the order of the pushes
MiddlewareList(o) ==
  << "pathParams", "metadata", "security" >>
  \o (IF Truthy(o.fileUploader) THEN << "multipart" >> ELSE << >>)
  \o (IF Truthy(o.validateRequests) THEN << "request" >> ELSE << >>)
  \o (IF Truthy(o.validateResponses) THEN << "response" >> ELSE << >>)
  \o (IF Truthy(o.operationHandlers) THEN << "operationHandlers" >> ELSE << >>)

\* installMiddleware(spec), lines 99-231: needs a constructed validator
InstallMiddleware ==
  /\ ctor = "done"
  /\ thisOptions
  /\ mws = << >>
  /\ mws' = MiddlewareList(optsObj)
  /\ UNCHANGED << specP, pContext, loadFailure, counts, inited, cache, reqs >>
  /\ UNCHANGED << optVars, errVars, parVars >>

(* --------------------------- the spec load ---------------------------- *)

\* the spec promise resolves (the loader is outside this module)
LoadResolve(doc) ==
  /\ mws # << >>
  /\ specP.state = "pending"
  /\ specP' = [state |-> "resolved", doc |-> doc, reason |-> "null"]
  /\ UNCHANGED << mws, pContext, loadFailure, counts, inited, cache, reqs >>
  /\ UNCHANGED << optVars, errVars, parVars >>

\* the spec promise rejects with e
LoadReject(e) ==
  /\ mws # << >>
  /\ specP.state = "pending"
  /\ specP' = [specP EXCEPT !.state = "rejected", !.reason = e]
  /\ loadFailure' = e
  /\ UNCHANGED << mws, pContext, counts, inited, cache, reqs >>
  /\ UNCHANGED << optVars, errVars, parVars >>

\* the catch callback with the error dropped from the record
CatchRecordNoError(e) ==
  [state |-> "settled", context |-> NullContext,
   responseApiDoc |-> 0, error |-> "null"]

\* lines 122-128: the record the catch callback returns
CatchRecord(e) ==
  [state |-> "settled", context |-> NullContext,
   responseApiDoc |-> 0, error |-> e]

\* pContext rebuilt on demand instead of once
ContextBuildAlways == TRUE

\* pContext is built once, in installMiddleware (line 101): its callbacks run
\* while it is still pending.
ContextBuildEnabled == pContext.state = "pending"

\* lines 102-121 (and 122-128 when the callback throws): the then callback of
\* the spec promise.  throwAt names the constructor that throws e, if any.
PContextThen(throwAt, e) ==
  /\ specP.state = "resolved"
  /\ ContextBuildEnabled
  /\ LET c1 == [counts EXCEPT !["preProcess"] = @ + 1, !["settle"] = @ + 1]
         c2 == [c1 EXCEPT !["context"] = @ + 1]
     IN  CASE throwAt = "preProcess" ->
                /\ counts' = c1
                /\ pContext' = CatchRecord(e)
                /\ loadFailure' = e
            [] throwAt = "context" ->
                /\ counts' = c2
                /\ pContext' = CatchRecord(e)
                /\ loadFailure' = e
            [] OTHER ->
                /\ counts' = c2
                /\ pContext' =
                     [state |-> "settled",
                      context |-> [id |-> c2["context"],
                                   serial |-> specP.doc.serial,
                                   secSchemes |-> specP.doc.secSchemes],
                      responseApiDoc |-> c1["preProcess"],
                      error |-> "null"]
                /\ UNCHANGED loadFailure
  /\ UNCHANGED << mws, specP, inited, cache, reqs >>
  /\ UNCHANGED << optVars, errVars, parVars >>

\* lines 122-128: the spec promise rejected, the catch callback runs
PContextCatch ==
  /\ specP.state = "rejected"
  /\ ContextBuildEnabled
  /\ pContext' = CatchRecord(specP.reason)
  /\ counts' = [counts EXCEPT !["settle"] = @ + 1]
  /\ UNCHANGED << mws, specP, loadFailure, inited, cache, reqs >>
  /\ UNCHANGED << optVars, errVars, parVars >>

(* ---------------------------- the requests ---------------------------- *)
(* The list is mounted with app.use (examples/1-standard-oas-3.1/app.js):  *)
(* express calls the first middleware when a request arrives, calls the    *)
(* next one, synchronously, when a middleware calls next(), and leaves the *)
(* list for the error handlers on next(err).                               *)

\* the middleware the request is in
MwAt(rq) == IF rq.stage \in 1..Len(mws) THEN mws[rq.stage] ELSE "none"

\* express calls middleware k for the request.  Each middleware registers a
\* then callback on pContext and returns; operationHandlersMiddleware goes
\* straight to the router once it is cached (line 222).
EnterStage(rq, k) ==
  IF k > Len(mws)
  THEN [rq EXCEPT !.stage = k, !.pc = "done", !.outcome = "passed"]
  ELSE IF mws[k] = "operationHandlers" /\ cache["router"] # 0
       THEN [rq EXCEPT !.stage = k, !.pc = "inner",
                       !.used = @ \cup { << "router", cache["router"] >> }]
       ELSE [rq EXCEPT !.stage = k, !.pc = "waiting"]

\* next()
CallNext(rq) == EnterStage(rq, rq.stage + 1)

\* a rejection that nobody hands to next
CallNextErrDropped(rq, e) == rq

\* next(err), also reached through .catch(next)
CallNextErr(rq, e) == [rq EXCEPT !.pc = "done", !.outcome = "failed", !.err = e]

\* what a then callback of pContext is handed
Snapshot ==
  [context |-> pContext.context, responseApiDoc |-> pContext.responseApiDoc,
   error |-> pContext.error]

See(rq) == [rq EXCEPT !.seen = @ \cup { Snapshot }]

\* a callback that does not wait for pContext
SettledAlways == TRUE

\* pContext.then(callback): the callback runs once pContext has settled
Settled == pContext.state = "settled"

Ready(r, name) ==
  /\ reqs[r].pc = "waiting"
  /\ MwAt(reqs[r]) = name
  /\ Settled

\* a request reaches the first middleware of the list
Arrive(r) ==
  /\ mws # << >>
  /\ reqs[r].stage = 0
  /\ reqs' = [reqs EXCEPT ![r] =
                [EnterStage(@, 1) EXCEPT !.arrivedPending = (specP.state = "pending")]]
  /\ UNCHANGED << mws, specP, pContext, loadFailure, counts, inited, cache >>
  /\ UNCHANGED << optVars, errVars, parVars >>

\* pathParamsMiddleware without the assignment inited = true
pathParamsMiddlewareNoFlag(r) ==
  /\ Ready(r, "pathParams")
  /\ LET rq == See(reqs[r])
     IN  IF Truthy(pContext.error)
         THEN /\ reqs' = [reqs EXCEPT ![r] = CallNextErr(rq, pContext.error)]
              /\ UNCHANGED << inited, counts >>
         ELSE IF ~inited
              THEN /\ counts' = [counts EXCEPT !["appParams"] = @ + 1]
                   /\ UNCHANGED inited
                   /\ reqs' = [reqs EXCEPT ![r] = CallNext(rq)]
              ELSE /\ reqs' = [reqs EXCEPT ![r] = CallNext(rq)]
                   /\ UNCHANGED << inited, counts >>
  /\ UNCHANGED << mws, specP, pContext, loadFailure, cache >>
  /\ UNCHANGED << optVars, errVars, parVars >>

\* lines 133-150
pathParamsMiddleware(r) ==
  /\ Ready(r, "pathParams")
  /\ LET rq == See(reqs[r])
     IN  IF Truthy(pContext.error)
         THEN /\ reqs' = [reqs EXCEPT ![r] = CallNextErr(rq, pContext.error)]
              /\ UNCHANGED << inited, counts >>
         ELSE IF ~inited
              THEN /\ counts' = [counts EXCEPT !["appParams"] = @ + 1]
                   /\ inited' = TRUE
                   /\ reqs' = [reqs EXCEPT ![r] = CallNext(rq)]
              ELSE /\ reqs' = [reqs EXCEPT ![r] = CallNext(rq)]
                   /\ UNCHANGED << inited, counts >>
  /\ UNCHANGED << mws, specP, pContext, loadFailure, cache >>
  /\ UNCHANGED << optVars, errVars, parVars >>

\* lines 135-149 when the continuation throws: next is the caller's function,
\* and a throw out of next() at line 147 rejects the then promise, so that
\* .catch(next) calls it again, with the error
pathParamsMiddlewareNextThrows(r) ==
  /\ Ready(r, "pathParams")
  /\ ~Truthy(pContext.error)
  /\ counts' = IF inited THEN counts ELSE [counts EXCEPT !["appParams"] = @ + 1]
  /\ inited' = TRUE
  /\ reqs' = [reqs EXCEPT ![r] =
                [CallNextErr(See(@), "NextThrew") EXCEPT !.twice = TRUE]]
  /\ UNCHANGED << mws, specP, pContext, loadFailure, cache >>
  /\ UNCHANGED << optVars, errVars, parVars >>

\* lines 167-176 when the continuation throws out of next() at line 174
securityMiddlewareNextThrows(r) ==
  /\ Ready(r, "security")
  /\ ~(Truthy(optsObj.validateSecurity) /\ pContext.context.secSchemes)
  /\ reqs' = [reqs EXCEPT ![r] =
                [CallNextErr(See(@), "NextThrew") EXCEPT !.twice = TRUE]]
  /\ UNCHANGED << mws, specP, pContext, loadFailure, counts, inited, cache >>
  /\ UNCHANGED << optVars, errVars, parVars >>

\* x = build() on every call
LazyBuildAlways(c) ==
  [cache  |-> [cache EXCEPT ![c] = counts[c] + 1],
   counts |-> [counts EXCEPT ![c] = @ + 1]]

\* x = x || build(): the cached instance, built when there is none yet.
\* Instances are numbered in the order they are built.
LazyBuild(c) ==
  IF cache[c] # 0
  THEN [cache |-> cache, counts |-> counts]
  ELSE [cache  |-> [cache EXCEPT ![c] = counts[c] + 1],
        counts |-> [counts EXCEPT ![c] = @ + 1]]

\* the shape shared by lines 154-161, 165-177, 182-189, 195-202, 208-215:
\* get or build the inner middleware, then call it with (req, res, next)
Delegate(r, c) ==
  LET b == LazyBuild(c)
  IN  /\ cache' = b.cache
      /\ counts' = b.counts
      /\ reqs' = [reqs EXCEPT ![r] =
                    [See(@) EXCEPT !.pc = "inner",
                                   !.used = @ \cup { << c, b.cache[c] >> }]]

\* lines 154-161
metadataMiddleware(r) ==
  /\ Ready(r, "metadata")
  /\ Delegate(r, "metamw")
  /\ UNCHANGED << mws, specP, pContext, loadFailure, inited >>
  /\ UNCHANGED << optVars, errVars, parVars >>

\* the security middleware gated on either condition alone
securityMiddlewareEitherGate(r) ==
  /\ Ready(r, "security")
  /\ IF Truthy(optsObj.validateSecurity) \/ pContext.context.secSchemes
     THEN Delegate(r, "scmw")
     ELSE /\ reqs' = [reqs EXCEPT ![r] = CallNext(See(@))]
          /\ UNCHANGED << cache, counts >>
  /\ UNCHANGED << mws, specP, pContext, loadFailure, inited >>
  /\ UNCHANGED << optVars, errVars, parVars >>

\* lines 165-177
securityMiddleware(r) ==
  /\ Ready(r, "security")
  /\ IF Truthy(optsObj.validateSecurity) /\ pContext.context.secSchemes
     THEN Delegate(r, "scmw")
     ELSE /\ reqs' = [reqs EXCEPT ![r] = CallNext(See(@))]
          /\ UNCHANGED << cache, counts >>
  /\ UNCHANGED << mws, specP, pContext, loadFailure, inited >>
  /\ UNCHANGED << optVars, errVars, parVars >>

\* lines 182-189
multipartMiddleware(r) ==
  /\ Ready(r, "multipart")
  /\ Delegate(r, "fumw")
  /\ UNCHANGED << mws, specP, pContext, loadFailure, inited >>
  /\ UNCHANGED << optVars, errVars, parVars >>

\* lines 195-202
requestMiddleware(r) ==
  /\ Ready(r, "request")
  /\ Delegate(r, "reqmw")
  /\ UNCHANGED << mws, specP, pContext, loadFailure, inited >>
  /\ UNCHANGED << optVars, errVars, parVars >>

\* lines 208-215
responseMiddleware(r) ==
  /\ Ready(r, "response")
  /\ Delegate(r, "resmw")
  /\ UNCHANGED << mws, specP, pContext, loadFailure, inited >>
  /\ UNCHANGED << optVars, errVars, parVars >>

\* lines 223-224 and 304-327: the first then callback of
\* operationHandlersMiddleware calls installOperationHandlers, which makes a
\* router, installs the path params on it and awaits the resolver
OperationHandlersInstall(r) ==
  /\ Ready(r, "operationHandlers")
  /\ counts' = [counts EXCEPT !["opInstall"] = @ + 1, !["routerParams"] = @ + 1]
  /\ reqs' = [reqs EXCEPT ![r] =
                [See(@) EXCEPT !.pc = "installing",
                               !.router = counts["opInstall"] + 1]]
  /\ UNCHANGED << mws, specP, pContext, loadFailure, inited, cache >>
  /\ UNCHANGED << optVars, errVars, parVars >>

\* line 225: installOperationHandlers resolved; the router is cached and called
OperationHandlersInstalled(r) ==
  /\ reqs[r].pc = "installing"
  /\ cache' = [cache EXCEPT !["router"] = reqs[r].router]
  /\ reqs' = [reqs EXCEPT ![r] =
                [@ EXCEPT !.pc = "inner",
                          !.used = @ \cup { << "router", reqs[r].router >> }]]
  /\ UNCHANGED << mws, specP, pContext, loadFailure, counts, inited >>
  /\ UNCHANGED << optVars, errVars, parVars >>

\* line 226: the resolver rejected, installOperationHandlers rejects
OperationHandlersFailed(r) ==
  /\ reqs[r].pc = "installing"
  /\ reqs' = [reqs EXCEPT ![r] = CallNextErr(@, "ResolverError")]
  /\ UNCHANGED << mws, specP, pContext, loadFailure, counts, inited, cache >>
  /\ UNCHANGED << optVars, errVars, parVars >>

\* the inner middleware (or the router) continues the request with next()
InnerNext(r) ==
  /\ reqs[r].pc = "inner"
  /\ reqs' = [reqs EXCEPT ![r] = CallNext(@)]
  /\ UNCHANGED << mws, specP, pContext, loadFailure, counts, inited, cache >>
  /\ UNCHANGED << optVars, errVars, parVars >>

\* the inner middleware fails the request: it calls next(err), or throws and
\* the wrapper's .catch(next) does
InnerFail(r) ==
  /\ reqs[r].pc = "inner"
  /\ reqs' = [reqs EXCEPT ![r] = CallNextErr(@, "HttpError")]
  /\ UNCHANGED << mws, specP, pContext, loadFailure, counts, inited, cache >>
  /\ UNCHANGED << optVars, errVars, parVars >>

\* a handler of the router answers the request and does not call next
RouterResponds(r) ==
  /\ reqs[r].pc = "inner"
  /\ MwAt(reqs[r]) = "operationHandlers"
  /\ reqs' = [reqs EXCEPT ![r] = [@ EXCEPT !.pc = "done", !.outcome = "handled"]]
  /\ UNCHANGED << mws, specP, pContext, loadFailure, counts, inited, cache >>
  /\ UNCHANGED << optVars, errVars, parVars >>

(* ----------------------------- HttpError ------------------------------ *)
(* framework/types, lines 614-836.  An argument object is a record of the  *)
(* properties the constructors read; a property that is absent is "undef", *)
(* 0 for overrideStatus (which is read with ||), and [def |-> FALSE] for   *)
(* the errors list.                                                        *)

NoErrors == [def |-> FALSE, items |-> << >>]

\* lines 637-657: HttpError's constructor, for the class cls
HttpErrorCtor(cls, err) ==
  [class   |-> cls,
   name    |-> err.name,
   status  |-> err.status,
   path    |-> err.path,
   message |-> err.message,
   headers |-> err.headers,
   errors  |-> IF err.errors.def
               THEN err.errors.items
               ELSE << [path |-> err.path, message |-> err.message] >>]

\* err.overrideStatus || dflt
StatusOr(err, dflt) == IF err.overrideStatus # 0 THEN err.overrideStatus ELSE dflt

\* the argument the subclasses without errors and headers hand to super()
SuperArg(err, dflt, name) ==
  [status |-> StatusOr(err, dflt), path |-> err.path, message |-> err.message,
   name |-> name, headers |-> "undef", errors |-> NoErrors]

\* lines 697-710
NotFound(err) == HttpErrorCtor("NotFound", SuperArg(err, 404, "Not Found"))

\* lines 712-725
NotAcceptable(err) ==
  HttpErrorCtor("NotAcceptable", SuperArg(err, 406, "Not Acceptable"))

\* lines 727-742
MethodNotAllowed(err) ==
  HttpErrorCtor("MethodNotAllowed",
    [SuperArg(err, 405, "Method Not Allowed") EXCEPT !.headers = err.headers])

\* lines 744-759
BadRequest(err) ==
  HttpErrorCtor("BadRequest",
    [SuperArg(err, 400, "Bad Request") EXCEPT !.errors = err.errors])

\* lines 761-774
RequestEntityTooLarge(err) ==
  HttpErrorCtor("RequestEntityTooLarge",
    SuperArg(err, 413, "Request Entity Too Large"))

\* lines 776-791
InternalServerError(err) ==
  HttpErrorCtor("InternalServerError",
    [SuperArg(err, 500, "Internal Server Error") EXCEPT !.errors = err.errors])

\* lines 793-806
UnsupportedMediaType(err) ==
  HttpErrorCtor("UnsupportedMediaType",
    SuperArg(err, 415, "Unsupported Media Type"))

\* lines 808-821
Unauthorized(err) == HttpErrorCtor("Unauthorized", SuperArg(err, 401, "Unauthorized"))

\* lines 823-836
Forbidden(err) == HttpErrorCtor("Forbidden", SuperArg(err, 403, "Forbidden"))

\* create with the input status handed on to InternalServerError
createKeepsStatus(err) ==
  CASE err.status = 400 -> BadRequest(err)
    [] err.status = 401 -> Unauthorized(err)
    [] err.status = 403 -> Forbidden(err)
    [] err.status = 404 -> NotFound(err)
    [] err.status = 405 -> MethodNotAllowed(err)
    [] err.status = 406 -> NotAcceptable(err)
    [] err.status = 413 -> RequestEntityTooLarge(err)
    [] err.status = 415 -> UnsupportedMediaType(err)
    [] OTHER -> InternalServerError([err EXCEPT !.overrideStatus = err.status])

\* lines 659-694: HttpError.create
create(err) ==
  CASE err.status = 400 -> BadRequest(err)
    [] err.status = 401 -> Unauthorized(err)
    [] err.status = 403 -> Forbidden(err)
    [] err.status = 404 -> NotFound(err)
    [] err.status = 405 -> MethodNotAllowed(err)
    [] err.status = 406 -> NotAcceptable(err)
    [] err.status = 413 -> RequestEntityTooLarge(err)
    [] err.status = 415 -> UnsupportedMediaType(err)
    [] OTHER -> InternalServerError(err)

ErrorClasses ==
  {"HttpError", "NotFound", "NotAcceptable", "MethodNotAllowed", "BadRequest",
   "RequestEntityTooLarge", "InternalServerError", "UnsupportedMediaType",
   "Unauthorized", "Forbidden"}

\* new cls(err)
NewOf(cls, err) ==
  CASE cls = "HttpError" -> HttpErrorCtor("HttpError", err)
    [] cls = "NotFound" -> NotFound(err)
    [] cls = "NotAcceptable" -> NotAcceptable(err)
    [] cls = "MethodNotAllowed" -> MethodNotAllowed(err)
    [] cls = "BadRequest" -> BadRequest(err)
    [] cls = "RequestEntityTooLarge" -> RequestEntityTooLarge(err)
    [] cls = "InternalServerError" -> InternalServerError(err)
    [] cls = "UnsupportedMediaType" -> UnsupportedMediaType(err)
    [] cls = "Unauthorized" -> Unauthorized(err)
    [] cls = "Forbidden" -> Forbidden(err)

(* the arguments the model calls them with *)

Statuses == {400, 401, 403, 404, 405, 406, 413, 415, 500, 409, 422, 503}

ErrorItems == { [path |-> "/body/name", message |-> "must be string"],
                [path |-> "/query/limit", message |-> "must be integer"] }

ErrorLists ==
  { NoErrors } \cup
  { [def |-> TRUE, items |-> l] : l \in SeqsUpTo(ErrorItems, MaxErrs) }

HeaderValues == {"undef", "{}", "{Allow: GET}", "{Allow: GET, POST}"}

\* headers.Allow is defined
AllowDefined(h) == h \in {"{Allow: GET}", "{Allow: GET, POST}"}

UndefErr ==
  [status |-> 0, path |-> "undef", message |-> "undef", name |-> "undef",
   headers |-> "undef", errors |-> NoErrors, overrideStatus |-> 0]

\* the declared parameter type of HttpError.create (lines 659-664)
CreateArgs ==
  { [UndefErr EXCEPT !.status = st, !.path = "/pets", !.message = m, !.errors = l] :
      st \in Statuses, m \in {"undef", "msg"}, l \in ErrorLists }

\* the declared parameter types of the constructors
CtorArgs(cls) ==
  LET base == { [UndefErr EXCEPT !.path = "/pets", !.message = m,
                                 !.overrideStatus = ov] :
                  m \in {"undef", "msg"}, ov \in {0, 405, 422} }
  IN  CASE cls = "HttpError" ->
             { [UndefErr EXCEPT !.status = st, !.path = "/pets", !.name = "Custom",
                                !.message = "msg", !.headers = h, !.errors = l] :
                 st \in {400, 405, 500}, h \in HeaderValues, l \in ErrorLists }
        [] cls = "MethodNotAllowed" ->
             { [b EXCEPT !.headers = h] : b \in base, h \in HeaderValues }
        [] cls \in {"BadRequest", "InternalServerError"} ->
             { [b EXCEPT !.errors = l] : b \in base, l \in ErrorLists }
        [] OTHER -> base

\* HttpError.create(err)
Create(err) ==
  /\ errOp' = "create"
  /\ errIn' = err
  /\ errOut' = create(err)
  /\ UNCHANGED << optVars, mwVars, parVars >>

\* new cls(err)
New(cls, err) ==
  /\ errOp' = cls
  /\ errIn' = err
  /\ errOut' = NewOf(cls, err)
  /\ UNCHANGED << optVars, mwVars, parVars >>

(* --------------------------- installPathParams ------------------------ *)
(* lines 233-263.  A route is the list of its path-parameter names; a      *)
(* request is its params (raw strings, "undef" when absent), its openapi   *)
(* metadata (absent, or with or without pathParams; coerced values "0" and *)
(* "7" are numbers) and its body.                                          *)

MaxRoutes == 2

ParamNames == {"id", "petId"}

RouteParamLists ==
  { << >>, << "id" >>, << "petId" >>, << "id", "petId" >>, << "petId", "id" >> }

RouteLists == SeqsUpTo([pathParams : RouteParamLists], MaxRoutes)

NoOpenapi ==
  [def |-> FALSE, hasPathParams |-> FALSE,
   pathParams |-> [n \in ParamNames |-> "undef"]]

OpenapiValues ==
  { NoOpenapi, [NoOpenapi EXCEPT !.def = TRUE] }
  \cup [def : {TRUE}, hasPathParams : {TRUE},
        pathParams : [ParamNames -> {"undef", "0", "7"}]]

ParamRequests ==
  [params : [ParamNames -> {"undef", "raw"}], openapi : OpenapiValues,
   body : {"body"}]

NoRequest ==
  [params |-> [n \in ParamNames |-> "undef"], openapi |-> NoOpenapi,
   body |-> "body"]

\* lines 234-239: the path params of all the routes, in route order
RECURSIVE CollectPathParams(_)
CollectPathParams(rts) ==
  IF rts = << >> THEN << >>
  ELSE rts[1].pathParams \o CollectPathParams(Tail(rts))

\* the names as collected, duplicates kept
UniqKeepsAll(names) == names

\* line 242, [...new Set(pathParams)]: first occurrences, in order
Uniq(names) ==
  LET firsts == { i \in 1..Len(names) : \A j \in 1..(i - 1) : names[j] # names[i] }
      nth(k) == CHOOSE i \in firsts : Cardinality({ j \in firsts : j < i }) = k - 1
  IN  [k \in 1..Cardinality(firsts) |-> names[nth(k)]]

\* lines 233-263: one app.param(p, callback) call per element of uniqPathParams
installPathParams(rts) ==
  /\ ~app.installed
  /\ ctxRoutes' = rts
  /\ app' = [installed |-> TRUE, params |-> Uniq(CollectPathParams(rts))]
  /\ UNCHANGED parCall
  /\ UNCHANGED << optVars, mwVars, errVars >>

\* lines 246-259: the callback; the result is the request and the number of
\* calls of next
ParamCallback(req, name) ==
  [req |->
     IF req.openapi.def /\ req.openapi.hasPathParams
     THEN [req EXCEPT !.params[name] =
             IF Truthy(req.openapi.pathParams[name])
             THEN req.openapi.pathParams[name] ELSE @]
     ELSE req,
   nexts |-> 1]

\* express calls the i-th registered callback for a request that has the param
CallParamCallback(i, req) ==
  /\ app.installed
  /\ i \in 1..Len(app.params)
  /\ req.params[app.params[i]] # "undef"
  /\ LET out == ParamCallback(req, app.params[i])
     IN  parCall' = [name |-> app.params[i], before |-> req, after |-> out.req,
                     nexts |-> out.nexts]
  /\ UNCHANGED << ctxRoutes, app >>
  /\ UNCHANGED << optVars, mwVars, errVars >>

(* --------------------------- specifications --------------------------- *)

UndefOpts ==
  [apiSpec |-> "undef", validateApiSpec |-> "undef", validateRequests |-> "undef",
   validateResponses |-> "undef", validateSecurity |-> "undef",
   fileUploader |-> "undef", validateFormats |-> "undef", formats |-> "undef",
   useRequestUrl |-> "undef", operationHandlers |-> "undef",
   securityHandlers |-> "undef", multerOpts |-> "undef",
   unknownFormats |-> "undef", ajvFormats |-> "undef", serDes |-> "undef"]

\* options that build every shape of the middleware list
ChainOptionInputs ==
  { [UndefOpts EXCEPT !.apiSpec = "str", !.fileUploader = off,
                      !.validateRequests = off, !.validateSecurity = off,
                      !.validateResponses = rs, !.operationHandlers = oh] :
      off \in {"undef", "false"}, rs \in {"undef", "true"},
      oh \in {"undef", "str"} }

Init ==
  /\ optsObj = UndefOpts
  /\ userSerDes = << >>
  /\ defaultSerDes = BuiltinSerDes
  /\ ctor = "new"
  /\ ctorError = "none"
  /\ thisOptions = FALSE
  /\ thisAjvOpts = FALSE
  /\ inOpts = [opts |-> UndefOpts, serDes |-> << >>]
  /\ mws = << >>
  /\ specP = [state |-> "pending", doc |-> [secSchemes |-> FALSE, serial |-> 1],
              reason |-> "null"]
  /\ pContext = PendingContext
  /\ loadFailure = "none"
  /\ counts = [k \in CountKeys |-> 0]
  /\ inited = FALSE
  /\ cache = [k \in Components \cup {"router"} |-> 0]
  /\ reqs = [r \in Reqs |-> NewReq]
  /\ errOp = "none"
  /\ errIn = UndefErr
  /\ errOut = HttpErrorCtor("none", UndefErr)
  /\ ctxRoutes = << >>
  /\ app = [installed |-> FALSE, params |-> << >>]
  /\ parCall = [name |-> "none", before |-> NoRequest, after |-> NoRequest,
                nexts |-> 0]

Next ==
  \/ /\ ctor = "new"
     /\ \E o \in ChainOptionInputs : Construct(o, << >>)
  \/ InstallMiddleware
  \/ \E doc \in SpecDocs : LoadResolve(doc)
  \/ \E e \in LoadErrors : LoadReject(e)
  \/ \E t \in {"none", "preProcess", "context"}, e \in LoadErrors : PContextThen(t, e)
  \/ PContextCatch
  \/ \E r \in Reqs :
       \/ Arrive(r)
       \/ pathParamsMiddleware(r)
       \/ metadataMiddleware(r)
       \/ securityMiddleware(r)
       \/ multipartMiddleware(r)
       \/ requestMiddleware(r)
       \/ responseMiddleware(r)
       \/ OperationHandlersInstall(r)
       \/ OperationHandlersInstalled(r)
       \/ OperationHandlersFailed(r)
       \/ InnerNext(r)
       \/ InnerFail(r)
       \/ RouterResponds(r)

Spec == Init /\ [][Next]_vars

\* the callbacks of a settled promise are jobs the event loop always runs:
\* the then/catch callback of the spec promise (lines 102, 122) and each
\* request's then callback in pathParamsMiddleware (line 135)
Fairness ==
  /\ WF_vars(\E t \in {"none", "preProcess", "context"}, e \in LoadErrors :
               PContextThen(t, e))
  /\ WF_vars(PContextCatch)
  /\ \A r \in Reqs : WF_vars(pathParamsMiddleware(r))

\* the load and the first middleware of the list on their own: nothing later
\* in the list reads or writes what pathParamsMiddleware waits for
NextLive ==
  \/ /\ ctor = "new"
     /\ \E o \in ChainOptionInputs : Construct(o, << >>)
  \/ InstallMiddleware
  \/ \E doc \in SpecDocs : LoadResolve(doc)
  \/ \E e \in LoadErrors : LoadReject(e)
  \/ \E t \in {"none", "preProcess", "context"}, e \in LoadErrors : PContextThen(t, e)
  \/ PContextCatch
  \/ \E r \in Reqs :
       \/ Arrive(r)
       \/ pathParamsMiddleware(r)

SpecLive == Init /\ [][NextLive]_vars /\ Fairness

\* the list called with a continuation that may throw
NextThrows ==
  \/ Next
  \/ \E r \in Reqs :
       \/ pathParamsMiddlewareNextThrows(r)
       \/ securityMiddlewareNextThrows(r)

SpecThrows == Init /\ [][NextThrows]_vars

\* installPathParams and its callbacks on their own
NextParams ==
  \/ \E rts \in RouteLists : installPathParams(rts)
  \/ \E i \in 1..Cardinality(ParamNames) : \E req \in ParamRequests : CallParamCallback(i, req)

SpecParams == Init /\ [][NextParams]_vars

\* the error classes on their own
NextErr ==
  \/ \E err \in CreateArgs : Create(err)
  \/ \E cls \in ErrorClasses : \E err \in CtorArgs(cls) : New(cls, err)

SpecErr == Init /\ [][NextErr]_vars

\* the options a caller may pass, and the serDes array with them
OptionInputs ==
  [apiSpec : {"undef", "str"}, validateApiSpec : {"undef"},
   validateRequests : {"undef", "false", "true", "obj"},
   validateResponses : {"undef", "false", "true", "obj"},
   validateSecurity : {"undef", "false"}, fileUploader : {"undef", "false"},
   validateFormats : {"undef"}, formats : {"undef"},
   useRequestUrl : {"undef"},
   operationHandlers : {"undef", "null", "false", "str", "obj"},
   securityHandlers : {"undef", "obj"}, multerOpts : {"undef", "obj"},
   unknownFormats : {"undef", "false", "ignore"}, ajvFormats : {"undef"},
   serDes : {"undef", "user", "default"}]

UserSerDesInputs(o) ==
  IF o.serDes = "user" THEN SeqsUpTo(UserSerDesEntry, MaxUserSerDes) ELSE { << >> }

\* construction and installation on their own, over all the options
NextOpts ==
  \/ /\ ctor = "new"
     /\ \E o \in OptionInputs : \E user \in UserSerDesInputs(o) : Construct(o, user)
  \/ InstallMiddleware

SpecOpts == Init /\ [][NextOpts]_vars

(* ------------------------------ claims -------------------------------- *)

\* the request has been continued by pathParamsMiddleware
PassedPathParams(rq) == rq.stage >= 2

\* next, or an inner middleware, has been invoked for the request
Continued(rq) == rq.stage >= 2 \/ rq.pc \in {"inner", "installing", "done"}

\* C1: once the load has failed with error E, every request that the chain has
\* finished with, whether it arrived before or after the failure, was failed
\* with that same E by pathParamsMiddleware (no request gets past it), the load
\* callbacks have run at most once, and installPathParams was never called.
InvC1 ==
  loadFailure # "none" =>
    /\ \A r \in Reqs :
         /\ reqs[r].stage <= 1
         /\ reqs[r].pc \in {"idle", "waiting", "done"}
         /\ reqs[r].pc = "done" =>
              (reqs[r].outcome = "failed" /\ reqs[r].err = loadFailure)
    /\ counts["settle"] <= 1
    /\ counts["preProcess"] <= 1
    /\ counts["context"] <= 1
    /\ counts["appParams"] = 0
    /\ counts["routerParams"] = 0
    /\ ~inited

\* C1 witness: the load failed, and a request that arrived while the spec was
\* loading and one that arrived after the failure were both failed with it.
WitC1 ==
  /\ loadFailure # "none"
  /\ \E r1, r2 \in Reqs :
       /\ reqs[r1].arrivedPending /\ ~reqs[r2].arrivedPending
       /\ reqs[r1].outcome = "failed" /\ reqs[r1].err = loadFailure
       /\ reqs[r2].outcome = "failed" /\ reqs[r2].err = loadFailure

\* C2: installPathParams(req.app, context) runs at most once per
\* installMiddleware call, and exactly once as soon as one request has been
\* continued by pathParamsMiddleware.
InvC2 ==
  /\ counts["appParams"] <= 1
  /\ (\E r \in Reqs : PassedPathParams(reqs[r])) => counts["appParams"] = 1

\* C2 witness: every request arrived before the load completed, and all of
\* them were continued by pathParamsMiddleware.
WitC2 ==
  /\ \A r \in Reqs : reqs[r].arrivedPending /\ PassedPathParams(reqs[r])
  /\ counts["appParams"] = 1

\* C3: no request is continued (next called, or an inner middleware invoked)
\* while the spec promise is pending, and nothing is built or installed for it.
InvC3 ==
  specP.state = "pending" =>
    /\ \A r \in Reqs : ~Continued(reqs[r])
    /\ \A k \in CountKeys : counts[k] = 0
    /\ \A k \in DOMAIN cache : cache[k] = 0

\* C3 witness: a request that arrived during the load went through the whole
\* list after it.
WitC3 ==
  \E r \in Reqs :
    /\ reqs[r].arrivedPending
    /\ reqs[r].outcome = "passed"
    /\ Len(mws) = 7

\* C4: preProcess and the OpenApiContext constructor run at most once, exactly
\* once each as soon as a request has been continued, and every callback of
\* every request was handed the same context, response document and serial.
InvC4 ==
  /\ counts["preProcess"] <= 1
  /\ counts["context"] <= 1
  /\ (\E r \in Reqs : Continued(reqs[r]) /\ reqs[r].outcome # "failed") =>
       (counts["preProcess"] = 1 /\ counts["context"] = 1)
  /\ \A r1, r2 \in Reqs : \A s1 \in reqs[r1].seen, s2 \in reqs[r2].seen : s1 = s2
  /\ \A r \in Reqs : \A s1 \in reqs[r].seen :
       PassedPathParams(reqs[r]) =>
         (s1.context.id = 1 /\ s1.responseApiDoc = 1 /\ s1.error = "null")

\* C4 witness: all requests went through responseMiddleware and saw the one
\* context.
WitC4 ==
  /\ counts["preProcess"] = 1 /\ counts["context"] = 1
  /\ \A r \in Reqs :
       /\ << "resmw", 1 >> \in reqs[r].used
       /\ reqs[r].outcome = "passed"
       /\ Cardinality(reqs[r].seen) = 1

\* C5: each lazily built inner component is built at most once, and every
\* request that was delegated to one was delegated to the cached instance.
InvC5 ==
  /\ \A c \in Components : counts[c] <= 1 /\ cache[c] = counts[c]
  /\ \A r \in Reqs : \A u \in reqs[r].used :
       u[1] \in Components => u[2] = 1

\* C5 witness: all five components were built and every request, each of which
\* arrived during the load, used all five.
WitC5 ==
  /\ \A c \in Components : counts[c] = 1
  /\ \A r \in Reqs : \A c \in Components :
       reqs[r].arrivedPending /\ << c, 1 >> \in reqs[r].used

KnownStatuses == {400, 401, 403, 404, 405, 406, 413, 415}

\* the class the claim pairs with a status
ClassOfStatus(st) ==
  CASE st = 400 -> "BadRequest"
    [] st = 401 -> "Unauthorized"
    [] st = 403 -> "Forbidden"
    [] st = 404 -> "NotFound"
    [] st = 405 -> "MethodNotAllowed"
    [] st = 406 -> "NotAcceptable"
    [] st = 413 -> "RequestEntityTooLarge"
    [] st = 415 -> "UnsupportedMediaType"
    [] OTHER -> "InternalServerError"

\* C6: HttpError.create returns, for a status among 400, 401, 403, 404, 405,
\* 406, 413 and 415, an error of the matching class whose status is the input
\* status, and for any other status an InternalServerError of status 500.
InvC6 ==
  errOp = "create" =>
    /\ errOut.class = ClassOfStatus(errIn.status)
    /\ IF errIn.status \in KnownStatuses
       THEN errOut.status = errIn.status
       ELSE errOut.status = 500

\* C6 witness: create was called with a status outside the table.
WitC6 ==
  /\ errOp = "create"
  /\ errIn.status = 409
  /\ errOut.class = "InternalServerError"
  /\ errOut.status = 500

\* C7: every error object made by HttpError, a subclass or create carries a
\* non-empty errors list: the list supplied, or, when none is supplied, the one
\* item {path, message} of the error.
ClaimC7 ==
  errOp # "none" =>
    /\ Len(errOut.errors) >= 1
    /\ errOut.errors =
         IF errIn.errors.def
         THEN errIn.errors.items
         ELSE << [path |-> errOut.path, message |-> errOut.message] >>

\* C9: every error of status 405 has headers.Allow defined, and its headers
\* are the headers given at construction.
ClaimC9 ==
  (errOp # "none" /\ errOut.status = 405) =>
    /\ AllowDefined(errOut.headers)
    /\ errOut.headers = errIn.headers

\* the array options.serDes refers to after normalization
SerDesList == IF optsObj.serDes = "user" THEN userSerDes ELSE defaultSerDes

\* the array the caller supplied as options.serDes, << >> if none
SuppliedSerDes ==
  CASE inOpts.opts.serDes = "user" -> inOpts.serDes
    [] inOpts.opts.serDes = "default" -> BuiltinSerDes
    [] OTHER -> << >>

HasFormat(list, f) == \E i \in 1..Len(list) : list[i].format = f

\* C8: after normalization the SerDes list has an entry for every built-in
\* format; for a built-in format the user supplied, the entries of that format
\* are the user's and no built-in entry was added; for one the user did not
\* supply, the built-in entry is there, once; defaultSerDes is unchanged.
InvC8 ==
  ctor = "done" =>
    /\ \A f \in BuiltinFormats : HasFormat(SerDesList, f)
    /\ \A f \in BuiltinFormats :
         LET got  == SelectSeq(SerDesList, LAMBDA e : e.format = f)
             user == SelectSeq(SuppliedSerDes, LAMBDA e : e.format = f)
             dflt == SelectSeq(BuiltinSerDes, LAMBDA e : e.format = f)
         IN  IF HasFormat(SuppliedSerDes, f) THEN got = user ELSE got = dflt
    /\ SubSeq(SerDesList, 1, Len(SuppliedSerDes)) = SuppliedSerDes
    /\ defaultSerDes = BuiltinSerDes

\* C8 witness: the user overrode date and left date-time to the built-in.
WitC8 ==
  /\ ctor = "done"
  /\ inOpts.opts.serDes = "user"
  /\ HasFormat(inOpts.serDes, "date")
  /\ ~HasFormat(inOpts.serDes, "date-time")
  /\ Len(userSerDes) = Len(inOpts.serDes) + 1

\* C10: a constructor called without apiSpec, or with securityHandlers or
\* multerOpts not null, throws before this.options and this.ajvOpts are
\* assigned, and no middleware is installed and no request served.
InvC10 ==
  (/\ ctor # "new"
   /\ \/ ~Truthy(inOpts.opts.apiSpec)
      \/ ~IsNullish(inOpts.opts.securityHandlers)
      \/ ~IsNullish(inOpts.opts.multerOpts)) =>
    /\ ctor = "thrown"
    /\ ctorError # "none"
    /\ ~thisOptions
    /\ ~thisAjvOpts
    /\ mws = << >>
    /\ \A r \in Reqs : reqs[r].stage = 0

\* C10 witness: the constructor threw for multerOpts alone.
WitC10 ==
  /\ ctor = "thrown"
  /\ Truthy(inOpts.opts.apiSpec)
  /\ IsNullish(inOpts.opts.securityHandlers)
  /\ ~IsNullish(inOpts.opts.multerOpts)
  /\ ctorError = "multerOpts is not supported."

\* name is one of the middlewares of the installed list
InList(name) == \E i \in 1..Len(mws) : mws[i] = name

\* the position of name in the installed list, 0 if it is not there
IndexOf(name) ==
  IF InList(name) THEN CHOOSE i \in 1..Len(mws) : mws[i] = name ELSE 0

\* C11: the installed list has the response-validation middleware exactly when
\* validateResponses was passed as true or an options object, and the
\* request-validation middleware exactly when validateRequests was not passed
\* as false; with both omitted, requests are validated and responses are not.
InvC11 ==
  mws # << >> =>
    /\ InList("response") <=> inOpts.opts.validateResponses \in {"true", "obj"}
    /\ InList("request") <=> inOpts.opts.validateRequests # "false"
    /\ (inOpts.opts.validateResponses = "undef" /\ inOpts.opts.validateRequests = "undef")
         => (InList("request") /\ ~InList("response"))

\* C11 witness: a list installed with both options omitted.
WitC11 ==
  /\ mws # << >>
  /\ inOpts.opts.validateResponses = "undef"
  /\ inOpts.opts.validateRequests = "undef"
  /\ InList("request")

\* the order the claim gives
ChainOrder ==
  << "pathParams", "metadata", "security", "multipart", "request", "response",
     "operationHandlers" >>

RankOf(name) == CHOOSE i \in 1..Len(ChainOrder) : ChainOrder[i] = name

\* C12: whatever the options, the installed list is in the order path-params,
\* metadata, security, multipart, request, response, operation handlers; the
\* first three are always there, each other one exactly when its option is on;
\* security is right after metadata and before request validation.
InvC12 ==
  mws # << >> =>
    /\ \A i, j \in 1..Len(mws) : i < j => RankOf(mws[i]) < RankOf(mws[j])
    /\ Len(mws) >= 3
    /\ mws[1] = "pathParams" /\ mws[2] = "metadata" /\ mws[3] = "security"
    /\ InList("multipart") <=> Truthy(optsObj.fileUploader)
    /\ InList("request") <=> Truthy(optsObj.validateRequests)
    /\ InList("response") <=> Truthy(optsObj.validateResponses)
    /\ InList("operationHandlers") <=> Truthy(optsObj.operationHandlers)
    /\ InList("request") => IndexOf("security") < IndexOf("request")

\* C12 witness: a list with all seven middlewares.
WitC12 ==
  /\ Len(mws) = 7
  /\ mws[4] = "multipart"
  /\ mws[7] = "operationHandlers"

\* the routers the requests were dispatched to
RoutersUsed ==
  { u[2] : u \in { v \in UNION { reqs[r].used : r \in Reqs } : v[1] = "router" } }

\* C13: for any interleaving of requests, installOperationHandlers is invoked
\* at most once and every request is dispatched to the one router it built.
ClaimC13 ==
  /\ counts["opInstall"] <= 1
  /\ Cardinality(RoutersUsed) <= 1

\* the request is suspended in pathParamsMiddleware
Suspended(r) == reqs[r].stage = 1 /\ reqs[r].pc = "waiting"

\* C14: once the spec promise has settled, every request suspended in
\* pathParamsMiddleware, whether it arrived before or after, eventually has its
\* continuation called: next() or next(error).
LiveC14 ==
  \A r \in Reqs :
    (specP.state # "pending" /\ Suspended(r))
      ~> (PassedPathParams(reqs[r]) \/ reqs[r].outcome = "failed")

\* C14 witness: the spec promise has settled with one request suspended since
\* before and another arrived after it, both still waiting for their callback.
WitC14 ==
  /\ specP.state # "pending"
  /\ \E r1, r2 \in Reqs :
       /\ Suspended(r1) /\ reqs[r1].arrivedPending
       /\ Suspended(r2) /\ ~reqs[r2].arrivedPending

\* C15: for each request, each wrapper middleware hands control on exactly
\* once; it never calls next a second time for the same request, not even
\* next(err) after next() has been called and has thrown.
ClaimC15 == \A r \in Reqs : ~reqs[r].twice

ClaimC17 ==
  ctor = "done" =>
    /\ optsObj.operationHandlers \in {"false", "obj", "objDefault"}
    /\ inOpts.opts.operationHandlers \in {"undef", "null", "false"}
         => optsObj.operationHandlers = "false"
    /\ inOpts.opts.operationHandlers = "str"
         => optsObj.operationHandlers = "objDefault"

\* the path-parameter names occurring in the routes
NamesInRoutes ==
  UNION { { ctxRoutes[k].pathParams[j] : j \in 1..Len(ctxRoutes[k].pathParams) } :
          k \in 1..Len(ctxRoutes) }

\* C18: installPathParams registers exactly one param callback per distinct
\* path-parameter name of the routes; a callback replaces req.params[name] with
\* req.openapi.pathParams[name] when the request has openapi path params and
\* that value is truthy, leaves it unchanged otherwise, touches no other
\* request field, and calls next once.
InvC18 ==
  /\ app.installed =>
       /\ \A n \in NamesInRoutes :
            Cardinality({ i \in 1..Len(app.params) : app.params[i] = n }) = 1
       /\ \A i \in 1..Len(app.params) : app.params[i] \in NamesInRoutes
  /\ parCall.name # "none" =>
       LET n == parCall.name
           b == parCall.before
           a == parCall.after
       IN  /\ a.params[n] =
                IF b.openapi.def /\ b.openapi.hasPathParams
                   /\ Truthy(b.openapi.pathParams[n])
                THEN b.openapi.pathParams[n] ELSE b.params[n]
           /\ \A m \in ParamNames \ {n} : a.params[m] = b.params[m]
           /\ a.openapi = b.openapi
           /\ a.body = b.body
           /\ parCall.nexts = 1

\* C18 witness: a name shared by two routes is registered, and its callback
\* has replaced the raw value of that param by the coerced one.
WitC18 ==
  /\ app.installed
  /\ Len(ctxRoutes) = 2
  /\ Len(ctxRoutes[1].pathParams) > 0
  /\ ctxRoutes[1].pathParams = ctxRoutes[2].pathParams
  /\ parCall.name \in NamesInRoutes
  /\ parCall.before.params[parCall.name] = "raw"
  /\ parCall.after.params[parCall.name] = "7"

\* the security wrapper has handled the request
PastSecurityWrapper(rq) ==
  \/ rq.stage > IndexOf("security")
  \/ rq.stage = IndexOf("security") /\ rq.pc \in {"inner", "done"}

\* the security evaluators the request was passed to
EvaluatorsUsed(rq) == { u \in rq.used : u[1] = "scmw" }

\* C19: when validateSecurity is false or the loaded document declares no
\* securitySchemes, the security wrapper calls next() for every request and the
\* evaluator is never built or invoked; otherwise every request is passed to
\* the single evaluator, and gets on only through it.
InvC19 ==
  LET gate == Truthy(optsObj.validateSecurity) /\ pContext.context.secSchemes
  IN  /\ counts["scmw"] <= 1
      /\ ~gate => (counts["scmw"] = 0 /\ cache["scmw"] = 0)
      /\ \A r \in Reqs :
           /\ PastSecurityWrapper(reqs[r]) =>
                IF gate
                THEN EvaluatorsUsed(reqs[r]) = { << "scmw", 1 >> }
                ELSE /\ EvaluatorsUsed(reqs[r]) = {}
                     /\ reqs[r].stage > IndexOf("security")
           /\ ~PastSecurityWrapper(reqs[r]) => EvaluatorsUsed(reqs[r]) = {}

\* C19 witness: with validateSecurity off and a document that declares
\* securitySchemes, two requests have passed the security wrapper.
WitC19 ==
  /\ ~Truthy(optsObj.validateSecurity)
  /\ pContext.context.secSchemes
  /\ counts["scmw"] = 0
  /\ \A r \in Reqs : reqs[r].stage > 3

\* C20: HttpError.create preserves a supplied errors list: for every status,
\* when the input carries an errors list, the errors of the returned error are
\* that list, same items in the same order.
ClaimC20 ==
  (errOp = "create" /\ errIn.errors.def) => errOut.errors = errIn.errors.items

====
